---- MODULE Spec2Model ----
(***************************************************************************)
(* Model of shift_app.py: the Gold/Silver shift calculator, the title and  *)
(* date parsers, and the Streamlit script body that partitions the rows of *)
(* an uploaded CSV into processed rows and rejected rows.                  *)
(*                                                                         *)
(* Text is modelled at character level: a Python str is a sequence of      *)
(* one-character strings, so the regular expressions of the source are     *)
(* modelled by matchers over characters (word boundaries, whitespace runs, *)
(* digit runs, case folding).  Fixed messages and labels that the program  *)
(* only compares or displays are TLA+ strings.                             *)
(***************************************************************************)
EXTENDS Integers, Sequences, FiniteSets, TLC

VARIABLES
    pc,           \* position of the script run (pipeline) or of the calculator run
    df,           \* the uploaded rows: Seq of [event_name, event_date] cells
    parsed,       \* df["event_name"].apply(parse_event_title_with_reason)
    rejected_df,  \* Seq of [idx, reason]; idx is the row's position in df
    df_ok,        \* Seq of processed rows
    date_parsed,  \* positions of df on which parse_any_date has been called
    ics_text,     \* build_ics(df_ok): Seq of lines
    c_line,       \* calculator run: line
    c_num,        \* calculator run: num
    c_date,       \* calculator run: target_dt
    c_day,        \* calculator run: day_num
    c_shift       \* calculator run: result of calc_shift_gold_silver

vars == <<pc, df, parsed, rejected_df, df_ok, date_parsed, ics_text,
          c_line, c_num, c_date, c_day, c_shift>>

pipeVars == <<df, parsed, rejected_df, df_ok, date_parsed, ics_text>>
calcVars == <<c_line, c_num, c_date, c_day, c_shift>>

(***************************************************************************)
(* Characters and str methods                                              *)
(***************************************************************************)
UpperLetters == {"A", "B", "D", "E", "G", "I", "L", "M", "N", "O", "P", "R", "S", "V", "Z"}
LowerLetters == {"a", "b", "d", "e", "g", "i", "l", "m", "n", "o", "p", "r", "s", "v", "x", "z"}
Digits == {"0", "1", "2", "3", "4", "5", "6", "7", "8", "9"}

\* str.lower() / re.IGNORECASE folding of one character
lower(c) ==
    CASE c = "A" -> "a" [] c = "B" -> "b" [] c = "D" -> "d" [] c = "E" -> "e"
      [] c = "G" -> "g" [] c = "I" -> "i" [] c = "L" -> "l" [] c = "M" -> "m"
      [] c = "N" -> "n" [] c = "O" -> "o" [] c = "P" -> "p" [] c = "R" -> "r"
      [] c = "S" -> "s" [] c = "V" -> "v" [] c = "Z" -> "z"
      [] OTHER -> c

\* \s of the re module (and the characters str.strip() removes)
IsSpace(c) == c \in {" ", "\t", "\n"}

\* \d of the re module
IsDigit(c) == c \in Digits

\* \w of the re module: letters, digits and the underscore
IsWord(c) == c \in UpperLetters \cup LowerLetters \cup Digits \cup {"_"}

\* number of leading characters of s, from position i on, that satisfy \s
RECURSIVE SpaceRun(_, _)
SpaceRun(s, i) ==
    IF i > Len(s) \/ ~IsSpace(s[i]) THEN 0 ELSE 1 + SpaceRun(s, i + 1)

\* number of leading characters of s, from position i on, that satisfy \d
RECURSIVE DigitRun(_, _)
DigitRun(s, i) ==
    IF i > Len(s) \/ ~IsDigit(s[i]) THEN 0 ELSE 1 + DigitRun(s, i + 1)

RECURSIVE TrailingSpaceRun(_, _)
TrailingSpaceRun(s, i) ==
    IF i < 1 \/ ~IsSpace(s[i]) THEN 0 ELSE 1 + TrailingSpaceRun(s, i - 1)

\* str.strip()
strip(s) ==
    LET a == SpaceRun(s, 1)
    IN  IF a = Len(s) THEN <<>>
        ELSE SubSeq(s, a + 1, Len(s) - TrailingSpaceRun(s, Len(s)))

\* the literal w (lower case) matches s at position i under re.IGNORECASE
LitAt(w, s, i) ==
    /\ i >= 1
    /\ i + Len(w) - 1 <= Len(s)
    /\ \A k \in 1..Len(w) : lower(s[i + k - 1]) = w[k]

\* \b between positions i-1 and i of s
Boundary(s, i) ==
    LET before == i > 1 /\ i - 1 <= Len(s) /\ IsWord(s[i - 1])
        after  == i >= 1 /\ i <= Len(s) /\ IsWord(s[i])
    IN  before # after

\* re.search(r"\b<w>\b", s, re.IGNORECASE) is not None
SearchWord(w, s) ==
    \E i \in 1..Len(s) :
        /\ LitAt(w, s, i)
        /\ Boundary(s, i)
        /\ Boundary(s, i + Len(w))

\* faulty variant: re.search in place of re.match, the word anywhere in the title
MatchWordAtStart_Search(w, s) == SearchWord(w, s)

\* re.match(r"^<w>\b", s, re.IGNORECASE)
MatchWordAtStart(w, s) == LitAt(w, s, 1) /\ Boundary(s, 1 + Len(w))

\* int(num_str) for a run of decimal digits
DigitValue(c) ==
    CASE c = "0" -> 0 [] c = "1" -> 1 [] c = "2" -> 2 [] c = "3" -> 3 [] c = "4" -> 4
      [] c = "5" -> 5 [] c = "6" -> 6 [] c = "7" -> 7 [] c = "8" -> 8 [] c = "9" -> 9

RECURSIVE int(_)
int(s) ==
    IF s = <<>> THEN 0
    ELSE int(SubSeq(s, 1, Len(s) - 1)) * 10 + DigitValue(s[Len(s)])

\* f"{num}" for a non-negative integer
DigitChar(n) ==
    CASE n = 0 -> "0" [] n = 1 -> "1" [] n = 2 -> "2" [] n = 3 -> "3" [] n = 4 -> "4"
      [] n = 5 -> "5" [] n = 6 -> "6" [] n = 7 -> "7" [] n = 8 -> "8" [] n = 9 -> "9"

RECURSIVE str(_)
str(n) ==
    IF n < 10 THEN <<DigitChar(n)>>
    ELSE Append(str(n \div 10), DigitChar(n % 10))

(***************************************************************************)
(* Title parsing                                                           *)
(***************************************************************************)
Chars_gold   == <<"g", "o", "l", "d">>
Chars_silver == <<"s", "i", "l", "v", "e", "r">>
Chars_am     == <<"a", "m">>

\* Result of <pattern>.match(s): whether it matched and group(1); an absent
\* group (None) is the empty sequence, which `not num_str` treats alike.
NoMatch == [matched |-> FALSE, group1 |-> <<>>]

\* faulty variant: a single space where the pattern has \s+
PatternMatch_SingleSpace(w, s) ==
    LET p  == Len(w) + 2
        q  == p + Len(Chars_am)
        d  == DigitRun(s, q + 1)
    IN  IF ~(LitAt(w, s, 1) /\ LitAt(<<" ">>, s, Len(w) + 1) /\ LitAt(Chars_am, s, p))
        THEN NoMatch
        ELSE IF q = Len(s) + 1 THEN [matched |-> TRUE, group1 |-> <<>>]
        ELSE IF LitAt(<<" ">>, s, q) /\ d >= 1 /\ q + 1 + d = Len(s) + 1
             THEN [matched |-> TRUE, group1 |-> SubSeq(s, q + 1, Len(s))]
        ELSE NoMatch

\* ^<w>\s+AM(?:\s+(\d+))?$ under re.IGNORECASE.  s is already stripped, so
\* the `$` that also matches before a final newline only matches at the end.
PatternMatch(w, s) ==
    LET k1 == SpaceRun(s, Len(w) + 1)
        p  == Len(w) + 1 + k1
        q  == p + Len(Chars_am)
        k2 == SpaceRun(s, q)
        d  == DigitRun(s, q + k2)
    IN  IF ~(LitAt(w, s, 1) /\ k1 >= 1 /\ LitAt(Chars_am, s, p)) THEN NoMatch
        ELSE IF q = Len(s) + 1 THEN [matched |-> TRUE, group1 |-> <<>>]
        ELSE IF k2 >= 1 /\ d >= 1 /\ q + k2 + d = Len(s) + 1
             THEN [matched |-> TRUE, group1 |-> SubSeq(s, q + k2, Len(s))]
        ELSE NoMatch

\* faulty variant: the number group is not optional
GOLD_PATTERN_NumberRequired(s) ==
    LET m == PatternMatch(Chars_gold, s)
    IN  IF m.matched /\ m.group1 = <<>> THEN NoMatch ELSE m

\* GOLD_PATTERN.match(s)
GOLD_PATTERN(s) == PatternMatch(Chars_gold, s)

\* SILVER_PATTERN.match(s)
SILVER_PATTERN(s) == PatternMatch(Chars_silver, s)

\* int(num_str) raises ValueError unless num_str is a decimal literal
IntParses(num_str) == num_str # <<>> /\ \A i \in 1..Len(num_str) : IsDigit(num_str[i])

\* Cells of the uploaded table as pandas delivers them
NaNCell       == [kind |-> "nan", text |-> <<>>]
NumberCell    == [kind |-> "number", text |-> <<>>]
StrCell(s)    == [kind |-> "str", text |-> s]

\* Return values of parse_event_title_with_reason: (tuple, None) or (None, reason)
Failure(reason) ==
    [ok |-> FALSE, line |-> "", num |-> 0, clean_event |-> <<>>, reason |-> reason]

Success(line, num, label) ==
    [ok |-> TRUE, line |-> line, num |-> num, clean_event |-> label \o str(num),
     reason |-> ""]

R_Missing       == "Missing event title"
R_NotText       == "Event title is not text"
R_Empty         == "Empty event title"
R_NotGoldSilver == "Not a Gold/Silver event"
R_MissingAM     == "Missing 'AM' (expected 'Gold AM #' or 'Silver AM [#]')"
R_GoldFormat    == "Gold format invalid (expected 'Gold AM <number>')"
R_GoldMissing   == "Gold missing number (expected 'Gold AM <number>')"
R_GoldNotInt    == "Gold number is not an integer"    \* followed by the text of the number
R_GoldPositive  == "Gold number must be positive"
R_SilverFormat  == "Silver format invalid (expected 'Silver AM' or 'Silver AM <number>')"
R_SilverNotInt  == "Silver number is not an integer"  \* followed by the text of the number
R_SilverPositive == "Silver number must be positive"
R_Unrecognized  == "Unrecognized title format"
R_BadDate       == "Date could not be parsed"

\* lines 84-98
GoldBranch(s) ==
    LET mg == GOLD_PATTERN(s)
    IN  IF ~mg.matched THEN Failure(R_GoldFormat)
        ELSE IF mg.group1 = <<>> THEN Failure(R_GoldMissing)
        ELSE IF ~IntParses(mg.group1) THEN Failure(R_GoldNotInt)
        ELSE IF int(mg.group1) <= 0 THEN Failure(R_GoldPositive)
        ELSE Success("Gold", int(mg.group1), <<"G", "o", "l", "d", " ">>)

\* faulty variant: no default for a missing number, as in the Gold branch
SilverBranch_NumberRequired(s) ==
    LET ms == SILVER_PATTERN(s)
    IN  IF ~ms.matched THEN Failure(R_SilverFormat)
        ELSE IF ms.group1 = <<>> THEN Failure(R_SilverFormat)
        ELSE IF ~IntParses(ms.group1) THEN Failure(R_SilverNotInt)
        ELSE IF int(ms.group1) <= 0 THEN Failure(R_SilverPositive)
        ELSE Success("Silver", int(ms.group1), <<"S", "i", "l", "v", "e", "r", " ">>)

\* lines 100-115
SilverBranch(s) ==
    LET ms == SILVER_PATTERN(s)
    IN  IF ~ms.matched THEN Failure(R_SilverFormat)
        ELSE IF ms.group1 = <<>> THEN Success("Silver", 1, <<"S", "i", "l", "v", "e", "r", " ">>)
        ELSE IF ~IntParses(ms.group1) THEN Failure(R_SilverNotInt)
        ELSE IF int(ms.group1) <= 0 THEN Failure(R_SilverPositive)
        ELSE Success("Silver", int(ms.group1), <<"S", "i", "l", "v", "e", "r", " ">>)

parse_event_title_with_reason(raw_title) ==
    IF raw_title.kind = "nan" THEN Failure(R_Missing)
    ELSE IF raw_title.kind # "str" THEN Failure(R_NotText)
    ELSE LET s == strip(raw_title.text)
             has_gold == SearchWord(Chars_gold, s)
             has_silver == SearchWord(Chars_silver, s)
         IN  IF s = <<>> THEN Failure(R_Empty)
             ELSE IF ~(has_gold \/ has_silver) THEN Failure(R_NotGoldSilver)
             ELSE IF ~SearchWord(Chars_am, s) THEN Failure(R_MissingAM)
             ELSE IF has_gold /\ MatchWordAtStart(Chars_gold, s) THEN GoldBranch(s)
             ELSE IF has_silver /\ MatchWordAtStart(Chars_silver, s) THEN SilverBranch(s)
             ELSE Failure(R_Unrecognized)

(***************************************************************************)
(* Calendar dates (datetime.date) and the shift calculator                 *)
(***************************************************************************)
Date(y, m, d) == [y |-> y, m |-> m, d |-> d]

IsLeap(y) == y % 4 = 0 /\ (y % 100 # 0 \/ y % 400 = 0)

DaysInMonth(y, m) ==
    IF m = 2 THEN (IF IsLeap(y) THEN 29 ELSE 28)
    ELSE IF m \in {4, 6, 9, 11} THEN 30 ELSE 31

RECURSIVE DaysBeforeMonth(_, _)
DaysBeforeMonth(y, m) ==
    IF m = 1 THEN 0 ELSE DaysBeforeMonth(y, m - 1) + DaysInMonth(y, m - 1)

\* date.toordinal(): days since 0001-01-01, counted from 1
toordinal(dt) ==
    LET py == dt.y - 1
    IN  py * 365 + py \div 4 - py \div 100 + py \div 400
        + DaysBeforeMonth(dt.y, dt.m) + dt.d

\* (a - b).days
DaysBetween(a, b) == toordinal(a) - toordinal(b)

\* faulty variant: the day is not checked against the month
IsValidDate_AnyDay(y, m, d) == m \in 1..12 /\ d \in 1..31

\* the dates of the calendar
IsValidDate(y, m, d) == m \in 1..12 /\ d >= 1 /\ d <= DaysInMonth(y, m)

ANCHOR_DATE == Date(2025, 7, 1)

ANCHOR_DAY_NUM == 2

\* faulty variant: a remainder that takes the sign of the dividend
get_day_number_TruncRem(target_dt) ==
    LET delta_days == DaysBetween(target_dt, ANCHOR_DATE)
        a == delta_days + ANCHOR_DAY_NUM - 1
        rem == IF a >= 0 THEN a % 4 ELSE 0 - ((0 - a) % 4)
    IN  rem + 1

\* Python's % takes the sign of the divisor, as TLA+'s % does for a positive one
get_day_number(target_dt) ==
    LET delta_days == DaysBetween(target_dt, ANCHOR_DATE)
    IN  ((delta_days + ANCHOR_DAY_NUM - 1) % 4) + 1

\* A call that returns a value, or raises ValueError with a message
Return(v) == [raised |-> FALSE, value |-> v]
Raise(msg) == [raised |-> TRUE, value |-> msg]

\* faulty variant: the days of the rows 2 and 4 the same way round as those of 3 and 5
gold_shift_type_SameRotation(num, day_num) ==
    IF num = 1 THEN Return("Early")
    ELSE IF num >= 6 THEN Return("Middle")
    ELSE IF num \in {3, 5} THEN Return(IF day_num \in {1, 3} THEN "Early" ELSE "Middle")
    ELSE IF num \in {2, 4} THEN Return(IF day_num \in {1, 3} THEN "Early" ELSE "Middle")
    ELSE Raise("Invalid/Unhandled Gold number")

\* faulty variant: num == 6 in place of num >= 6
gold_shift_type_OnlySix(num, day_num) ==
    IF num = 1 THEN Return("Early")
    ELSE IF num = 6 THEN Return("Middle")
    ELSE IF num \in {3, 5} THEN Return(IF day_num \in {1, 3} THEN "Early" ELSE "Middle")
    ELSE IF num \in {2, 4} THEN Return(IF day_num \in {1, 3} THEN "Middle" ELSE "Early")
    ELSE Raise("Invalid/Unhandled Gold number")

gold_shift_type(num, day_num) ==
    IF num = 1 THEN Return("Early")
    ELSE IF num >= 6 THEN Return("Middle")
    ELSE IF num \in {3, 5} THEN Return(IF day_num \in {1, 3} THEN "Early" ELSE "Middle")
    ELSE IF num \in {2, 4} THEN Return(IF day_num \in {1, 3} THEN "Middle" ELSE "Early")
    ELSE Raise("Invalid/Unhandled Gold number")

silver_shift_type(num) ==
    IF num = 1 THEN Return("Early")
    ELSE IF num >= 2 THEN Return("Middle")
    ELSE Raise("Invalid/Unhandled Silver number")

\* line.lower() of the labels the pipeline and its callers pass
lower_line(line) ==
    CASE line = "Gold" -> "gold" [] line = "Silver" -> "silver" [] OTHER -> line

calc_shift_gold_silver(line, num, target_dt) ==
    LET day_num == get_day_number(target_dt)
    IN  IF lower_line(line) = "gold" THEN gold_shift_type(num, day_num)
        ELSE IF lower_line(line) = "silver" THEN silver_shift_type(num)
        ELSE Raise("Only Gold/Silver supported in this workflow.")

\* shift.strip().lower() of the calculator's return values
shift_to_lower(shift) ==
    CASE shift = "Early" -> "early" [] shift = "Middle" -> "middle" [] OTHER -> shift

shift_to_start_time(shift_lower) ==
    IF shift_lower = "early" THEN "06:45"
    ELSE IF shift_lower = "middle" THEN "08:00"
    ELSE "UNKNOWN"

(***************************************************************************)
(* Date parsing                                                            *)
(***************************************************************************)
NoDate == [ok |-> FALSE, date |-> Date(0, 0, 0)]

\* pd.to_datetime(s, errors="coerce") on the inputs of this model: an ISO
\* "YYYY-MM-DD" text of a real calendar date gives that date, any other text
\* of the model's inputs gives NaT.
to_datetime(s) ==
    IF /\ Len(s) = 10
       /\ \A i \in {1, 2, 3, 4, 6, 7, 9, 10} : IsDigit(s[i])
       /\ s[5] = "-" /\ s[8] = "-"
    THEN LET y == int(SubSeq(s, 1, 4))
             m == int(SubSeq(s, 6, 7))
             d == int(SubSeq(s, 9, 10))
         IN  IF y >= 1 /\ IsValidDate(y, m, d)
             THEN [ok |-> TRUE, date |-> Date(y, m, d)]
             ELSE NoDate
    ELSE NoDate

parse_any_date(x) ==
    IF x.kind = "nan" THEN NoDate
    ELSE LET s == strip(x.text)
         IN  IF s = <<>> THEN NoDate ELSE to_datetime(s)

(***************************************************************************)
(* Calendar export                                                         *)
(***************************************************************************)
NextDay(dt) ==
    IF dt.d < DaysInMonth(dt.y, dt.m) THEN Date(dt.y, dt.m, dt.d + 1)
    ELSE IF dt.m < 12 THEN Date(dt.y, dt.m + 1, 1)
    ELSE Date(dt.y + 1, 1, 1)

RECURSIVE AddDays(_, _)
AddDays(dt, n) == IF n = 0 THEN dt ELSE AddDays(NextDay(dt), n - 1)

\* datetime.strptime(start_time, "%H:%M").time(), in minutes after midnight
ClockMinutes(start_time) ==
    CASE start_time = "06:45" -> 6 * 60 + 45
      [] start_time = "08:00" -> 8 * 60

\* a datetime: a date and the minutes after midnight
Stamp(dt, minutes) == [date |-> dt, minutes |-> minutes]

\* start_dt + timedelta(minutes=duration_minutes)
AddMinutes(st, n) ==
    LET total == st.minutes + n
    IN  Stamp(AddDays(st.date, total \div (24 * 60)), total % (24 * 60))

NoStamp == Stamp(Date(0, 0, 0), 0)

\* the four replace() calls on the summary
RECURSIVE Escape(_)
Escape(s) ==
    IF s = <<>> THEN <<>>
    ELSE LET c == Head(s)
             e == IF c = "\n" THEN <<"\\", "n">>
                  ELSE IF c \in {"\\", ",", ";"} THEN <<"\\", c>>
                  ELSE <<c>>
         IN  e \o Escape(Tail(s))

\* one line of the .ics text
Line(tag) == [tag |-> tag, text |-> <<>>, stamp |-> NoStamp]
TextLine(tag, s) == [tag |-> tag, text |-> s, stamp |-> NoStamp]
StampLine(tag, st) == [tag |-> tag, text |-> <<>>, stamp |-> st]

IcsHeader == <<Line("BEGIN:VCALENDAR"), Line("VERSION:2.0"),
               Line("CALSCALE:GREGORIAN"), Line("PRODID:-//ShiftApp//EN")>>

\* the lines the loop body of build_ics adds for row r
EventLines(r, duration_minutes) ==
    IF r.start_time = "UNKNOWN" \/ ~r.event_date_parsed.ok THEN <<>>
    ELSE LET start_dt == Stamp(r.event_date_parsed.date, ClockMinutes(r.start_time))
             end_dt == AddMinutes(start_dt, duration_minutes)
         IN  <<Line("BEGIN:VEVENT"),
               TextLine("SUMMARY", Escape(r.clean_event)),
               StampLine("DTSTART", start_dt),
               StampLine("DTEND", end_dt),
               Line("END:VEVENT")>>

RECURSIVE IcsBody(_, _)
IcsBody(rows, duration_minutes) ==
    IF rows = <<>> THEN <<>>
    ELSE EventLines(Head(rows), duration_minutes) \o IcsBody(Tail(rows), duration_minutes)

build_ics(rows, duration_minutes) ==
    IcsHeader \o IcsBody(rows, duration_minutes) \o <<Line("END:VCALENDAR")>>

(***************************************************************************)
(* The script body run on an uploaded table                                *)
(***************************************************************************)
\* the index of a table; df.loc[mask] is SelectSeq: the rows of the mask, in
\* the order of the table
Positions(s) == [i \in 1..Len(s) |-> i]

NewRow(i, p) ==
    [idx |-> i, line |-> p.line, num |-> p.num, clean_event |-> p.clean_event,
     event_date_parsed |-> NoDate, shift_result |-> "", start_time |-> ""]

Rejected(i, reason) == [idx |-> i, reason |-> reason]

\* faulty variant: the rows without a date are not added to the rejected rows
DateRejects_Dropped(rejected, bad_df) == rejected

\* faulty variant: the rows without a date are put before the rows rejected so far
DateRejects_Prepended(rejected, bad_df) ==
    [k \in 1..Len(bad_df) |-> Rejected(bad_df[k].idx, R_BadDate)] \o rejected

\* lines 264-267: the rows without a date, with their reason, after the rows
\* rejected so far
DateRejects(rejected, bad_df) ==
    rejected \o [k \in 1..Len(bad_df) |-> Rejected(bad_df[k].idx, R_BadDate)]

\* lines 239-254: parse the titles, split the rows, stop if none is left
ParseTitles ==
    /\ pc = "uploaded"
    /\ LET res == [i \in 1..Len(df) |-> parse_event_title_with_reason(df[i].event_name)]
           isna(i) == ~res[i].ok
           notna(i) == res[i].ok
           bad == SelectSeq(Positions(df), isna)
           good == SelectSeq(Positions(df), notna)
       IN  /\ parsed' = res
           /\ rejected_df' = [k \in 1..Len(bad) |-> Rejected(bad[k], res[bad[k]].reason)]
           /\ df_ok' = [k \in 1..Len(good) |-> NewRow(good[k], res[good[k]])]
           /\ pc' = IF good = <<>> THEN "stopped" ELSE "titles_parsed"
    /\ UNCHANGED <<df, date_parsed, ics_text, calcVars>>

\* lines 256-274: parse the dates of the remaining rows, move the rows without
\* a date to the end of rejected_df, stop if none is left
ParseDates ==
    /\ pc = "titles_parsed"
    /\ LET dated == [k \in 1..Len(df_ok) |->
                        [df_ok[k] EXCEPT !.event_date_parsed =
                             parse_any_date(df[df_ok[k].idx].event_date)]]
           bad_dates(r) == ~r.event_date_parsed.ok
           has_date(r) == r.event_date_parsed.ok
           bad_df == SelectSeq(dated, bad_dates)
           kept == SelectSeq(dated, has_date)
       IN  /\ date_parsed' = date_parsed \cup {df_ok[k].idx : k \in 1..Len(df_ok)}
           /\ rejected_df' = DateRejects(rejected_df, bad_df)
           /\ df_ok' = kept
           /\ pc' = IF kept = <<>> THEN "stopped" ELSE "dates_parsed"
    /\ UNCHANGED <<df, parsed, ics_text, calcVars>>

\* one iteration of the loop of lines 278-283
ShiftResult(r) ==
    LET shift == calc_shift_gold_silver(r.line, r.num, r.event_date_parsed.date)
    IN  IF shift.raised THEN "error: " \o shift.value ELSE shift_to_lower(shift.value)

\* lines 276-286: shift and start time of every remaining row
CalcShifts ==
    /\ pc = "dates_parsed"
    /\ df_ok' = [k \in 1..Len(df_ok) |->
                    [df_ok[k] EXCEPT !.shift_result = ShiftResult(df_ok[k]),
                                     !.start_time = shift_to_start_time(ShiftResult(df_ok[k]))]]
    /\ pc' = "calculated"
    /\ UNCHANGED <<df, parsed, rejected_df, date_parsed, ics_text, calcVars>>

\* the values the duration widget of lines 215-218 can hold when line 304 reads
\* it: its default and its two ends
Durations == {15, 60, 24 * 60}

\* line 304, with the duration the widget holds
BuildIcs ==
    /\ pc = "calculated"
    /\ \E event_duration_min \in Durations :
           ics_text' = build_ics(df_ok, event_duration_min)
    /\ pc' = "done"
    /\ UNCHANGED <<df, parsed, rejected_df, df_ok, date_parsed, calcVars>>

Next == ParseTitles \/ ParseDates \/ CalcShifts \/ BuildIcs

(***************************************************************************)
(* The calculator called on its own                                        *)
(***************************************************************************)
NoShift == Return("")

\* line 41
GetDayNumber ==
    /\ pc = "calc"
    /\ c_day' = get_day_number(c_date)
    /\ pc' = "calc_day"
    /\ UNCHANGED <<pipeVars, c_line, c_num, c_date, c_shift>>

\* lines 39-46
CalcShift ==
    /\ pc = "calc_day"
    /\ c_shift' = calc_shift_gold_silver(c_line, c_num, c_date)
    /\ pc' = "calc_done"
    /\ UNCHANGED <<pipeVars, c_line, c_num, c_date, c_day>>

NextCalc == GetDayNumber \/ CalcShift

(***************************************************************************)
(* Inputs                                                                  *)
(***************************************************************************)
MaxRows == 3
MaxSpaces == 2
MaxNum == 7
YearSpan == 1

W_Gold   == <<"G", "o", "l", "d">>
W_gold   == <<"g", "o", "l", "d">>
W_Silver == <<"S", "i", "l", "v", "e", "r">>
W_Bronze == <<"B", "r", "o", "n", "z", "e">>
W_AM     == <<"A", "M">>
W_am     == <<"a", "m">>
W_PM     == <<"P", "M">>
W_Re     == <<"R", "e", ":", " ">>
W_NA     == <<"N", "/", "A">>

Spaces(n) == [i \in 1..n |-> " "]

Separators == {Spaces(n) : n \in 0..MaxSpaces} \cup {<<"\t">>}

NumberTexts == {<<>>, <<"0", "5">>, <<"x">>} \cup {str(n) : n \in 0..MaxNum}

\* titles <prefix><roster><sep><am><sep><number><suffix>
TitleTexts ==
    { pre \o ro \o s1 \o am \o s2 \o nu \o suf :
        pre \in {<<>>, <<" ">>, W_Re},
        ro \in {W_Gold, W_gold, W_Silver},
        s1 \in Separators,
        am \in {W_AM, W_am, <<>>},
        s2 \in Separators,
        nu \in NumberTexts,
        suf \in {<<>>, <<"x">>} }

\* cells that are no text, and titles outside the pattern of TitleTexts
OtherTitleCells ==
    {NaNCell, NumberCell, StrCell(<<" ">>),
     StrCell(W_Bronze \o <<" ">> \o W_AM),
     StrCell(W_Gold \o <<" ">> \o W_PM),
     StrCell(W_Gold \o <<" ">> \o W_AM \o <<" ", "5", " ", "\n">>),
     StrCell(<<"x">> \o W_Gold \o <<" ">> \o W_AM \o <<" ", "5">>),
     StrCell(W_Gold \o <<"_">> \o W_AM \o <<" ", "5">>),
     StrCell(W_Gold \o <<" ">> \o W_Silver \o <<" ">> \o W_AM),
     StrCell(W_Silver \o <<" ">> \o W_Gold \o <<" ">> \o W_AM \o <<" ", "3">>),
     StrCell(W_AM \o <<" ">> \o W_Silver \o <<" ", "2">>)}

TitleCells == OtherTitleCells \cup {StrCell(s) : s \in TitleTexts}

\* "YYYY-MM-DD"
RECURSIVE Pad(_, _)
Pad(s, n) == IF Len(s) >= n THEN s ELSE Pad(<<"0">> \o s, n)

isoformat(dt) == Pad(str(dt.y), 4) \o <<"-">> \o Pad(str(dt.m), 2) \o <<"-">> \o Pad(str(dt.d), 2)

\* the anchor date and the days around it: every day number occurs, on both
\* sides of the anchor
NearAnchor == {Date(2025, 6, 29), Date(2025, 6, 30), ANCHOR_DATE, Date(2025, 7, 2)}

GoldTitle(n) == StrCell(W_Gold \o <<" ">> \o W_AM \o <<" ">> \o str(n))

\* rows of the batches
BatchTitles ==
    {GoldTitle(5), StrCell(W_Silver \o <<" ">> \o W_AM),
     StrCell(W_Re \o W_Gold \o <<" ">> \o W_AM \o <<" ", "3">>)}

BatchDates ==
    {NaNCell, StrCell(isoformat(ANCHOR_DATE)), StrCell(isoformat(Date(2025, 6, 30)))}

Row(t, d) == [event_name |-> t, event_date |-> d]

BatchRows == {Row(t, d) : t \in BatchTitles, d \in BatchDates}

Batches == UNION {[1..n -> BatchRows] : n \in 0..MaxRows}

GoodDates == {StrCell(isoformat(d)) : d \in NearAnchor}

\* cells parse_any_date finds no date in; 2025-02-30 is no date of the calendar
BadDates ==
    {NaNCell, StrCell(<<" ">>), StrCell(W_NA), StrCell(isoformat(Date(2025, 2, 30)))}

\* one-row tables: every title with every good date, and the titles of the
\* batches, a missing title and a Gold title without number with every bad date
SingleRows ==
    {Row(t, d) : t \in TitleCells, d \in GoodDates} \cup
    {Row(t, d) : t \in BatchTitles \cup {NaNCell, StrCell(W_Gold \o <<" ">> \o W_AM)},
                 d \in BadDates}

\* every date of the years around the anchor's
CalcDates ==
    {dt \in [y : (ANCHOR_DATE.y - YearSpan)..(ANCHOR_DATE.y + YearSpan),
             m : 1..12, d : 1..31] : IsValidDate(dt.y, dt.m, dt.d)}

CalcIdle ==
    /\ c_line = "" /\ c_num = 0 /\ c_date = ANCHOR_DATE /\ c_day = 0 /\ c_shift = NoShift

PipeStart ==
    /\ pc = "uploaded"
    /\ parsed = <<>> /\ rejected_df = <<>> /\ df_ok = <<>>
    /\ date_parsed = {} /\ ics_text = <<>>
    /\ CalcIdle

\* an uploaded table of up to MaxRows rows
Init == df \in Batches /\ PipeStart

Spec == Init /\ [][Next]_vars

\* an uploaded table of one row, over the titles of TitleCells
InitRow ==
    /\ df \in {<<r>> : r \in SingleRows}
    /\ PipeStart

SpecRow == InitRow /\ [][Next]_vars

\* the calculator on every roster, number and date of the bounds
InitCalc ==
    /\ pc = "calc"
    /\ df = <<>> /\ parsed = <<>> /\ rejected_df = <<>> /\ df_ok = <<>>
    /\ date_parsed = {} /\ ics_text = <<>>
    /\ c_line \in {"Gold", "Silver"}
    /\ c_num \in 1..MaxNum
    /\ c_date \in CalcDates
    /\ c_day = 0
    /\ c_shift = NoShift

SpecCalc == InitCalc /\ [][NextCalc]_vars

(***************************************************************************)
(* Properties                                                              *)
(***************************************************************************)
Finished == pc \in {"stopped", "done"}

Title(i) == df[i].event_name

AcceptedAt(i) == {k \in 1..Len(df_ok) : df_ok[k].idx = i}
RejectedAt(i) == {k \in 1..Len(rejected_df) : rejected_df[k].idx = i}

T_GoldAM5    == StrCell(W_Gold \o <<" ">> \o W_AM \o <<" ", "5">>)
T_GoldAM     == StrCell(W_Gold \o <<" ">> \o W_AM)
T_Gold2AM5   == StrCell(W_Gold \o <<" ", " ">> \o W_AM \o <<" ", "5">>)
T_SilverAM   == StrCell(W_Silver \o <<" ">> \o W_AM)
T_SilverAM1  == StrCell(W_Silver \o <<" ">> \o W_AM \o <<" ", "1">>)
T_ReGoldAM3  == StrCell(W_Re \o W_Gold \o <<" ">> \o W_AM \o <<" ", "3">>)
L_Gold5      == <<"G", "o", "l", "d", " ", "5">>
L_Silver1    == <<"S", "i", "l", "v", "e", "r", " ", "1">>

Fold(s) == [k \in 1..Len(s) |-> lower(s[k])]

\* C1: once the run has ended (also when it stopped early), every input row is
\* in exactly one of the processed rows and the rejected rows, and the two
\* together are as many as the input rows.
C1_EveryRowExactlyOnce ==
    Finished =>
        /\ Len(df_ok) + Len(rejected_df) = Len(df)
        /\ \A i \in 1..Len(df) :
               Cardinality(AcceptedAt(i)) + Cardinality(RejectedAt(i)) = 1
        /\ \A k \in 1..Len(df_ok) : df_ok[k].idx \in 1..Len(df)
        /\ \A k \in 1..Len(rejected_df) : rejected_df[k].idx \in 1..Len(df)

C1_Witness ==
    /\ pc = "done"
    /\ Len(df) = 3
    /\ Len(df_ok) = 1
    /\ \E a, b \in 1..Len(rejected_df) :
           rejected_df[a].reason = R_Unrecognized /\ rejected_df[b].reason = R_BadDate

InInputOrder(s) == \A a, b \in 1..Len(s) : a < b => s[a].idx < s[b].idx

\* C2 as stated: in both output sets the rows are in input order, whatever the
\* cause of a rejection.
C2_BothSetsInInputOrder ==
    Finished => InInputOrder(df_ok) /\ InInputOrder(rejected_df)

\* C2 as amended: the processed rows are in input order; in the rejected rows
\* those rejected for their title come first, in input order, and those
\* rejected for their date follow, in input order.
C2_OrderWithinStage ==
    Finished =>
        /\ InInputOrder(df_ok)
        /\ \A a, b \in 1..Len(rejected_df) :
               a < b =>
                   LET ra == rejected_df[a]
                       rb == rejected_df[b]
                   IN  /\ ~(ra.reason = R_BadDate /\ rb.reason # R_BadDate)
                       /\ (ra.reason = R_BadDate) = (rb.reason = R_BadDate)
                              => ra.idx < rb.idx

C2_Witness ==
    /\ pc = "done"
    /\ \E a, b \in 1..Len(rejected_df) :
           /\ a < b
           /\ rejected_df[a].idx > rejected_df[b].idx
           /\ rejected_df[b].reason = R_BadDate

\* the date cell is null, blank or no date
NoDateIn(cell) == cell \in BadDates

C4_DayNumberRange ==
    pc \in {"calc_day", "calc_done"} =>
        /\ c_day \in {1, 2, 3, 4}
        /\ c_date = Date(2025, 7, 1) => c_day = 2

C4_Witness ==
    /\ pc = "calc_day"
    /\ c_date = Date(2024, 2, 29)
    /\ c_day = 2

\* the Gold table of the claim
GoldTable(n, d) ==
    CASE n = 1 -> "Early"
      [] n >= 6 -> "Middle"
      [] n \in {3, 5} /\ d \in {1, 3} -> "Early"
      [] n \in {3, 5} /\ d \in {2, 4} -> "Middle"
      [] n \in {2, 4} /\ d \in {1, 3} -> "Middle"
      [] n \in {2, 4} /\ d \in {2, 4} -> "Early"

\* C5: for every Gold number n >= 1 and every day number d, the shift is the one
\* of the Gold table: 1 Early, 6 and more Middle, 3 and 5 Early on days 1 and 3
\* and Middle on days 2 and 4, 2 and 4 the other way round.
C5_GoldTable ==
    (pc = "calc_done" /\ c_line = "Gold") =>
        /\ ~c_shift.raised
        /\ c_shift.value = GoldTable(c_num, c_day)

C5_Witness ==
    /\ pc = "calc_done"
    /\ c_line = "Gold"
    /\ c_num = 4
    /\ c_day = 2
    /\ c_shift = Return("Early")

\* C6: "Silver AM" parses as "Silver AM 1" does, to (Silver, 1, "Silver 1"), and
\* its row gets the early shift on every date.
C6_SilverDefault ==
    \A i \in 1..Len(parsed) :
        Title(i) \in {T_SilverAM, T_SilverAM1} =>
            /\ parsed[i] = [ok |-> TRUE, line |-> "Silver", num |-> 1,
                            clean_event |-> L_Silver1, reason |-> ""]
            /\ \A k \in AcceptedAt(i) :
                   pc \in {"calculated", "done"} =>
                       df_ok[k].shift_result = "early" /\ df_ok[k].start_time = "06:45"

C6_Witness ==
    /\ pc = "done"
    /\ df = <<Row(T_SilverAM, StrCell(isoformat(Date(2025, 7, 2))))>>
    /\ Len(df_ok) = 1
    /\ df_ok[1].clean_event = L_Silver1
    /\ df_ok[1].shift_result = "early"

\* C7 as stated: "Gold AM" is rejected as "Gold format invalid", and no title
\* is rejected as "Gold missing number".
C7_MissingNumberUnreachable ==
    \A i \in 1..Len(parsed) :
        /\ parsed[i].reason # R_GoldMissing
        /\ Title(i) = T_GoldAM => ~parsed[i].ok /\ parsed[i].reason = R_GoldFormat

\* the whitespace-separated pieces of s, as str.split() gives them
RECURSIVE NonSpaceRun(_, _)
NonSpaceRun(s, i) ==
    IF i > Len(s) \/ IsSpace(s[i]) THEN 0 ELSE 1 + NonSpaceRun(s, i + 1)

RECURSIVE Split(_)
Split(s) ==
    IF s = <<>> THEN <<>>
    ELSE IF IsSpace(Head(s)) THEN Split(Tail(s))
    ELSE LET n == NonSpaceRun(s, 1)
         IN  <<Fold(SubSeq(s, 1, n))>> \o Split(SubSeq(s, n + 1, Len(s)))

AllDigits(s) == s # <<>> /\ \A k \in 1..Len(s) : s[k] \in Digits

\* C7 as amended: "Gold AM" is rejected as "Gold missing number", and that
\* reason is given exactly to the text titles that are the two words Gold and
\* AM (any case) with whitespace between them and no number.
C7_MissingNumberReason ==
    \A i \in 1..Len(parsed) :
        /\ Title(i) = T_GoldAM => ~parsed[i].ok /\ parsed[i].reason = R_GoldMissing
        /\ parsed[i].reason = R_GoldMissing <=>
               (Title(i).kind = "str" /\ Split(Title(i).text) = <<Chars_gold, Chars_am>>)

C7_Witness ==
    /\ pc = "stopped"
    /\ Title(1) = T_GoldAM
    /\ rejected_df = <<Rejected(1, R_GoldMissing)>>

\* the whitespace runs inside the stripped text are single spaces
SingleSpaced(s) ==
    \A k \in 1..Len(s) :
        IsSpace(s[k]) => s[k] = " " /\ (k > 1 => ~IsSpace(s[k - 1]))

\* C8 as stated: a title is accepted only when exactly one space stands between
\* its tokens; with two spaces or a tab it is rejected as format invalid.
C8_ExactlyOneSpace ==
    \A i \in 1..Len(parsed) :
        LET s == strip(Title(i).text)
        IN  /\ parsed[i].ok => SingleSpaced(s)
            /\ Title(i) = T_Gold2AM5 => ~parsed[i].ok /\ parsed[i].reason = R_GoldFormat

\* the tokens of an accepted title: Gold, AM and a positive number, or Silver,
\* AM and no number or a positive one
AcceptedTokens(tk) ==
    /\ Len(tk) \in {2, 3}
    /\ tk[1] \in {Chars_gold, Chars_silver}
    /\ tk[2] = Chars_am
    /\ Len(tk) = 2 => tk[1] = Chars_silver
    /\ Len(tk) = 3 => AllDigits(tk[3]) /\ \E k \in 1..Len(tk[3]) : tk[3][k] # "0"

\* C8 as amended: a title is accepted exactly when its whitespace-separated
\* tokens are Gold, AM and a positive number, or Silver, AM and at most a
\* positive number, with any run of one or more spaces or tabs between the
\* tokens; its roster and number are those of the tokens.
C8_AnyWhitespaceRun ==
    \A i \in 1..Len(parsed) :
        LET tk == Split(Title(i).text)
        IN  /\ parsed[i].ok <=> (Title(i).kind = "str" /\ AcceptedTokens(tk))
            /\ parsed[i].ok =>
                   /\ parsed[i].line = (IF tk[1] = Chars_gold THEN "Gold" ELSE "Silver")
                   /\ Len(tk) = 2 => parsed[i].num = 1
                   /\ Len(tk) = 3 => parsed[i].num = int(tk[3])

C8_Witness ==
    /\ pc = "done"
    /\ Title(1) = T_Gold2AM5
    /\ Len(df_ok) = 1
    /\ df_ok[1].line = "Gold" /\ df_ok[1].num = 5 /\ df_ok[1].clean_event = L_Gold5

\* the maximal runs of word characters of s, in order, case folded
RECURSIVE WordRun(_, _)
WordRun(s, i) ==
    IF i > Len(s) \/ ~IsWord(s[i]) THEN 0 ELSE 1 + WordRun(s, i + 1)

RECURSIVE Words(_)
Words(s) ==
    IF s = <<>> THEN <<>>
    ELSE IF ~IsWord(Head(s)) THEN Words(Tail(s))
    ELSE LET n == WordRun(s, 1)
         IN  <<Fold(SubSeq(s, 1, n))>> \o Words(SubSeq(s, n + 1, Len(s)))

HasWord(s, w) == \E k \in 1..Len(Words(s)) : Words(s)[k] = w

FirstChar(s) == s[SpaceRun(s, 1) + 1]

\* the word the trimmed text begins with, or the empty word
StartWord(s) == IF IsWord(FirstChar(s)) THEN Words(s)[1] ELSE <<>>

GoldReasons == {R_GoldFormat, R_GoldMissing, R_GoldNotInt, R_GoldPositive}
SilverReasons == {R_SilverFormat, R_SilverNotInt, R_SilverPositive}

\* the reason of the first check of the claim's order that the cell fails, or
\* "" when it passes the checks before the Gold and Silver formats
FirstFailing(cell) ==
    IF cell.kind = "nan" THEN R_Missing
    ELSE IF cell.kind # "str" THEN R_NotText
    ELSE IF \A k \in 1..Len(cell.text) : IsSpace(cell.text[k]) THEN R_Empty
    ELSE IF ~HasWord(cell.text, Chars_gold) /\ ~HasWord(cell.text, Chars_silver)
         THEN R_NotGoldSilver
    ELSE IF ~HasWord(cell.text, Chars_am) THEN R_MissingAM
    ELSE IF StartWord(cell.text) \notin {Chars_gold, Chars_silver} THEN R_Unrecognized
    ELSE ""

\* C9: the checks come in the order missing, not text, empty, no Gold/Silver
\* word, no AM word, Gold at the start, Silver at the start, and the first one
\* that fails gives the reason: a title with a roster word and the word AM that
\* does not begin with the roster word is "Unrecognized title format", and a
\* title with a roster word and no word AM gets the "Missing 'AM'" reason.
C9_FirstFailingCheck ==
    \A i \in 1..Len(parsed) :
        LET expected == FirstFailing(Title(i))
        IN  IF expected # ""
            THEN ~parsed[i].ok /\ parsed[i].reason = expected
            ELSE \/ parsed[i].ok
                 \/ /\ StartWord(Title(i).text) = Chars_gold
                    /\ parsed[i].reason \in GoldReasons
                 \/ /\ StartWord(Title(i).text) = Chars_silver
                    /\ parsed[i].reason \in SilverReasons

C9_Witness ==
    /\ pc = "stopped"
    /\ Title(1) = T_ReGoldAM3
    /\ parsed[1].reason = R_Unrecognized
    /\ rejected_df = <<Rejected(1, R_Unrecognized)>>

EventBlocks(lines) == {k \in 1..Len(lines) : lines[k].tag = "BEGIN:VEVENT"}

\* C10: every row that passed title and date parsing gets the shift early or
\* middle and the start time 06:45 or 08:00, never UNKNOWN or an error text, and
\* the calendar text holds one event block for each of these rows.
C10_ClassificationNeverFails ==
    /\ pc \in {"calculated", "done"} =>
           \A k \in 1..Len(df_ok) :
               \/ df_ok[k].shift_result = "early" /\ df_ok[k].start_time = "06:45"
               \/ df_ok[k].shift_result = "middle" /\ df_ok[k].start_time = "08:00"
    /\ pc = "done" =>
           /\ Cardinality(EventBlocks(ics_text)) = Len(df_ok)
           /\ \A k \in 1..Len(df_ok) :
                  \E j \in EventBlocks(ics_text) :
                      ics_text[j + 1] = TextLine("SUMMARY", df_ok[k].clean_event)

C10_Witness ==
    /\ pc = "done"
    /\ Len(df_ok) = 1
    /\ df_ok[1].line = "Gold" /\ df_ok[1].num = 7
    /\ df_ok[1].start_time = "08:00"
    /\ Cardinality(EventBlocks(ics_text)) = 1

====
